---------------------------- MODULE Spec2Model ----------------------------
(***************************************************************************)
(* The to-do widget of shine-and-done: the nested task tree held in the    *)
(* React state `items` of TodoCard, the recursive helpers that rebuild it  *)
(* (deleteItemById, toggleItemById, toggleExpandById, addChildById,        *)
(* updateItemNotes, countAllItems, flattenItems, findItemById) and the     *)
(* event handlers that apply them.  The model follows the TodoCard with    *)
(* the notes panel (the last component of markdown-editor.tsx); its tree   *)
(* helpers and handlers are the ones of to-do-card.tsx, line for line,     *)
(* and its seed is the one of to-do-card.tsx with `notes: ""` on each node.*)
(* The TodoCard of to-do-card.tsx is the same widget without the panel.    *)
(*                                                                         *)
(* Encoding of the JavaScript values:                                      *)
(*   - an id string is the sequence of its "-"-separated segments:         *)
(*     "2-1" is <<2, 1>>, `${parentId}-${Date.now()}` is                   *)
(*     Append(parentId, now) and `task-${Date.now()}` is <<TaskSeg, now>>. *)
(*     Date.now() prints as decimal digits without "-", so two ids are the *)
(*     same string exactly when they are the same sequence;                *)
(*   - an optional field (expanded?, notes?) or a nullable value is        *)
(*     Undefined == <<>> when absent and Some(v) == <<v>> when present;    *)
(*   - every node the program builds carries a children array (the seed,   *)
(*     addChildById and handleAddTask all set it), so children is a plain  *)
(*     sequence of nodes.                                                  *)
(***************************************************************************)
EXTENDS Integers, Sequences, FiniteSets, TLC

VARIABLES
  items,         \* useState(initialItems): the task tree
  newTaskText,   \* useState(""): the text of the add-task input
  selectedId,    \* useState(null): the id shown in the details panel
  activeId,      \* useState(null): the id being dragged
  isOverDelete,  \* useState(false): the drag hovers over the delete zone
  clock,         \* the millisecond Date.now() returned last
  nops,          \* the number of user operations performed so far
  seed,          \* the module-level array initialItems, shared by reference
  celebrating,   \* useState(false): the confetti overlay is on
  wasAllDoneRef, \* useRef(false): the celebration has been triggered
  timers,        \* the pending setTimeout handles
  cleanup,       \* the cleanup the last run of the celebration effect returned
  effectDep,     \* the value of allDone the celebration effect last ran for
  nresets,       \* the number of resets performed so far
  docOrigin,     \* the id of the task whose notes the mounted editor loaded
  inFlight,      \* the editor changes whose markdown is still being produced
  nedits         \* the number of editor changes so far

\* the state of the celebration effect
celebration == <<celebrating, wasAllDoneRef, timers, cleanup, effectDep>>

\* the state of the notes editor
notesEditor == <<docOrigin, inFlight, nedits>>

vars == <<items, newTaskText, selectedId, activeId, isOverDelete, clock, nops,
          seed, celebration, nresets, notesEditor>>

(***************************************************************************)
(* Bounds of the model.                                                    *)
(***************************************************************************)
\* number of user operations explored in one session
MaxOps == 2
\* number of milliseconds the clock readings of one session span
MaxTicks == 1
\* number of resets explored in one session
MaxResets == 1
\* number of editor changes explored in one session
MaxEdits == 1
\* number of clicks on a file button in a session that works the list off
MaxSelects == 1

(***************************************************************************)
(* JavaScript values.                                                      *)
(***************************************************************************)
Undefined == <<>>
Some(v) == <<v>>
\* JavaScript truthiness of an optional boolean: undefined and false are falsy
Truthy(opt) == opt = Some(TRUE)

\* the segment "task" of the ids minted by handleAddTask
TaskSeg == 0
\* the first value Date.now() returns in the session; any real value is far
\* above the numeric segments 1 and 2 of the seed's child ids
ClockStart == 3

\* the values a call of Date.now() may return: the millisecond of the previous
\* reading (two handlers can run within one millisecond) or a later one
DateNow == {now \in clock..(clock + 1) : now <= ClockStart + MaxTicks}

RECURSIVE Readings(_, _)
\* the values n consecutive calls of Date.now() may return after the reading
\* `last`: each the millisecond of the call before it or a later one
Readings(last, n) ==
  IF n = 0 THEN {<<>>}
  ELSE UNION {{<<now>> \o r : r \in Readings(now, n - 1)} :
                now \in {t \in last..(last + 1) : t <= ClockStart + MaxTicks}}

(***************************************************************************)
(* The seed list.                                                          *)
(***************************************************************************)
initialItems ==
  << [id |-> <<1>>, text |-> "Review Calendar PR (React/TS)", done |-> FALSE,
      children |-> <<>>, expanded |-> Some(TRUE), notes |-> Some("")],
     [id |-> <<2>>, text |-> "Implement authentication in the email provider",
      done |-> FALSE, expanded |-> Some(TRUE), notes |-> Some(""),
      children |->
        << [id |-> <<2, 1>>, text |-> "Set up OAuth providers", done |-> TRUE,
            children |-> <<>>, expanded |-> Undefined, notes |-> Some("")],
           [id |-> <<2, 2>>, text |-> "Add session management", done |-> FALSE,
            children |-> <<>>, expanded |-> Undefined, notes |-> Some("")] >>],
     [id |-> <<3>>, text |-> "Refactor components in the Tauri/React 19 app",
      done |-> FALSE, children |-> <<>>, expanded |-> Some(TRUE), notes |-> Some("")],
     [id |-> <<4>>, text |-> "Test image downloads in Novon", done |-> FALSE,
      children |-> <<>>, expanded |-> Some(TRUE), notes |-> Some("")],
     [id |-> <<5>>, text |-> "Organize CSS and layouts", done |-> TRUE,
      expanded |-> Some(TRUE), notes |-> Some(""),
      children |->
        << [id |-> <<5, 1>>, text |-> "Clean up unused styles", done |-> TRUE,
            children |-> <<>>, expanded |-> Undefined, notes |-> Some("")] >>],
     [id |-> <<6>>, text |-> "Draft the apps roadmap", done |-> FALSE,
      children |-> <<>>, expanded |-> Some(TRUE), notes |-> Some("")] >>

(***************************************************************************)
(* The recursive helpers of TodoCard.                                      *)
(***************************************************************************)
RECURSIVE flattenItems_all(_)
\* a flattening that lists the children of collapsed items too
flattenItems_all(list) ==
  IF list = <<>> THEN <<>>
  ELSE LET item == Head(list)
       IN  <<item.id>> \o flattenItems_all(item.children) \o flattenItems_all(Tail(list))

RECURSIVE flattenItems(_)
\* pre-order ids of the rendered nodes: children only under a truthy expanded
flattenItems(list) ==
  IF list = <<>> THEN <<>>
  ELSE LET item == Head(list)
       IN  <<item.id>>
             \o (IF Truthy(item.expanded) THEN flattenItems(item.children) ELSE <<>>)
             \o flattenItems(Tail(list))

RECURSIVE findItemById(_, _)
\* first match in depth-first pre-order, or null
findItemById(list, id) ==
  IF list = <<>> THEN Undefined
  ELSE LET item == Head(list)
       IN  IF item.id = id THEN Some(item)
           ELSE LET found == findItemById(item.children, id)
                IN  IF found # Undefined THEN found
                    ELSE findItemById(Tail(list), id)

RECURSIVE deleteItemById_dropChildren(_, _)
\* deleteItemById with the branches of `item.children ? ... : []` swapped
deleteItemById_dropChildren(list, id) ==
  IF list = <<>> THEN <<>>
  ELSE LET item == Head(list)
       IN  IF item.id = id THEN deleteItemById_dropChildren(Tail(list), id)
           ELSE <<[item EXCEPT !.children = <<>>]>>
                  \o deleteItemById_dropChildren(Tail(list), id)

\* deleteItemById filtering the list it is given without descending into children
deleteItemById_rootOnly(list, id) ==
  SelectSeq(list, LAMBDA item : item.id # id)

RECURSIVE deleteItemById_firstOnly(_, _)
\* deleteItemById removing the first match in pre-order only (findIndex and splice)
deleteItemById_firstOnly(list, id) ==
  IF list = <<>> THEN <<>>
  ELSE LET item == Head(list)
           below == deleteItemById_firstOnly(item.children, id)
       IN  IF item.id = id THEN Tail(list)
           ELSE IF below # item.children
             THEN <<[item EXCEPT !.children = below]>> \o Tail(list)
             ELSE <<item>> \o deleteItemById_firstOnly(Tail(list), id)

RECURSIVE deleteItemById_expandedOnly(_, _)
\* a delete that searches the children of expanded items only
deleteItemById_expandedOnly(list, id) ==
  IF list = <<>> THEN <<>>
  ELSE LET item == Head(list)
       IN  IF item.id = id THEN deleteItemById_expandedOnly(Tail(list), id)
           ELSE <<IF Truthy(item.expanded)
                    THEN [item EXCEPT
                            !.children = deleteItemById_expandedOnly(item.children, id)]
                    ELSE item>>
                  \o deleteItemById_expandedOnly(Tail(list), id)

RECURSIVE deleteItemById(_, _)
\* reduce: a matching item is skipped, any other is pushed with its children filtered
deleteItemById(list, id) ==
  IF list = <<>> THEN <<>>
  ELSE LET item == Head(list)
       IN  IF item.id = id THEN deleteItemById(Tail(list), id)
           ELSE <<[item EXCEPT !.children = deleteItemById(item.children, id)]>>
                  \o deleteItemById(Tail(list), id)

RECURSIVE toggleItemById_setDone(_, _)
\* toggleItemById marking the match done instead of negating its flag
toggleItemById_setDone(list, id) ==
  [k \in 1..Len(list) |->
     IF list[k].id = id THEN [list[k] EXCEPT !.done = TRUE]
     ELSE [list[k] EXCEPT !.children = toggleItemById_setDone(list[k].children, id)]]

RECURSIVE setDoneBelow(_, _)
setDoneBelow(list, value) ==
  [k \in 1..Len(list) |->
     [list[k] EXCEPT !.done = value, !.children = setDoneBelow(list[k].children, value)]]

RECURSIVE toggleItemById_cascade(_, _)
\* toggleItemById completing (or reopening) the whole subtree of the match
toggleItemById_cascade(list, id) ==
  [k \in 1..Len(list) |->
     IF list[k].id = id
       THEN [list[k] EXCEPT !.done = ~list[k].done,
                            !.children = setDoneBelow(list[k].children, ~list[k].done)]
       ELSE [list[k] EXCEPT !.children = toggleItemById_cascade(list[k].children, id)]]

RECURSIVE toggleItemById(_, _)
toggleItemById(list, id) ==
  [k \in 1..Len(list) |->
     IF list[k].id = id THEN [list[k] EXCEPT !.done = ~list[k].done]
     ELSE [list[k] EXCEPT !.children = toggleItemById(list[k].children, id)]]

RECURSIVE toggleExpandById(_, _)
toggleExpandById(list, id) ==
  [k \in 1..Len(list) |->
     IF list[k].id = id THEN [list[k] EXCEPT !.expanded = Some(~Truthy(list[k].expanded))]
     ELSE [list[k] EXCEPT !.children = toggleExpandById(list[k].children, id)]]

\* the node addChildById creates under parentId at millisecond now
newChild(parentId, now) ==
  [id |-> Append(parentId, now), text |-> "New subtask", done |-> FALSE,
   children |-> <<>>, expanded |-> Some(TRUE), notes |-> Undefined]

RECURSIVE matches(_, _)
\* the number of nodes the map of addChildById finds carrying parentId: it
\* does not descend into the children of a node that carries it
matches(list, parentId) ==
  IF list = <<>> THEN 0
  ELSE LET item == Head(list)
       IN  (IF item.id = parentId THEN 1 ELSE matches(item.children, parentId))
             + matches(Tail(list), parentId)

RECURSIVE addChildById_noExpand(_, _, _)
\* addChildById without `expanded: true` on the parent
addChildById_noExpand(list, parentId, nows) ==
  IF list = <<>> THEN <<>>
  ELSE LET item == Head(list)
           read == IF item.id = parentId THEN 1 ELSE matches(item.children, parentId)
           rest == addChildById_noExpand(Tail(list), parentId,
                                         SubSeq(nows, read + 1, Len(nows)))
       IN  IF item.id = parentId
             THEN <<[item EXCEPT
                       !.children = Append(item.children, newChild(parentId, nows[1]))]>>
                    \o rest
             ELSE <<[item EXCEPT
                       !.children = addChildById_noExpand(item.children, parentId,
                                                          SubSeq(nows, 1, read))]>>
                    \o rest

RECURSIVE addChildById(_, _, _)
\* map over the list; Date.now() is called in the callback, once for each node
\* carrying parentId, in the order the map visits them: nows holds those
\* readings, the first for the first match
addChildById(list, parentId, nows) ==
  IF list = <<>> THEN <<>>
  ELSE LET item == Head(list)
           read == IF item.id = parentId THEN 1 ELSE matches(item.children, parentId)
           rest == addChildById(Tail(list), parentId, SubSeq(nows, read + 1, Len(nows)))
       IN  IF item.id = parentId
             THEN <<[item EXCEPT
                       !.expanded = Some(TRUE),
                       !.children = Append(item.children, newChild(parentId, nows[1]))]>>
                    \o rest
             ELSE <<[item EXCEPT
                       !.children = addChildById(item.children, parentId,
                                                 SubSeq(nows, 1, read))]>>
                    \o rest

\* the readings of one call of addChildById(list, parentId)
DateNowFor(list, parentId) == Readings(clock, matches(list, parentId))

RECURSIVE updateItemNotes_dropEmpty(_, _, _)
\* a setter that reads empty notes as no notes
updateItemNotes_dropEmpty(list, id, notes) ==
  [k \in 1..Len(list) |->
     IF list[k].id = id
       THEN [list[k] EXCEPT !.notes = IF notes = "" THEN Undefined ELSE Some(notes)]
       ELSE [list[k] EXCEPT
               !.children = updateItemNotes_dropEmpty(list[k].children, id, notes)]]

RECURSIVE updateItemNotes(_, _, _)
updateItemNotes(list, id, notes) ==
  [k \in 1..Len(list) |->
     IF list[k].id = id THEN [list[k] EXCEPT !.notes = Some(notes)]
     ELSE [list[k] EXCEPT !.children = updateItemNotes(list[k].children, id, notes)]]

RECURSIVE countAllItems_expandedOnly(_)
\* countAllItems descending only into expanded items, as flattenItems does
countAllItems_expandedOnly(list) ==
  IF list = <<>> THEN [total |-> 0, done |-> 0]
  ELSE LET item == Head(list)
           childCounts == IF Truthy(item.expanded)
                            THEN countAllItems_expandedOnly(item.children)
                            ELSE [total |-> 0, done |-> 0]
           rest == countAllItems_expandedOnly(Tail(list))
       IN  [total |-> 1 + childCounts.total + rest.total,
            done  |-> (IF item.done THEN 1 ELSE 0) + childCounts.done + rest.done]

\* countAllItems over the root list only
countAllItems_rootOnly(list) ==
  [total |-> Len(list),
   done  |-> Cardinality({k \in 1..Len(list) : list[k].done})]

RECURSIVE countAllItems(_)
\* reduce over the list: every item counts, and so do all items below it
countAllItems(list) ==
  IF list = <<>> THEN [total |-> 0, done |-> 0]
  ELSE LET item == Head(list)
           childCounts == countAllItems(item.children)
           rest == countAllItems(Tail(list))
       IN  [total |-> 1 + childCounts.total + rest.total,
            done  |-> (IF item.done THEN 1 ELSE 0) + childCounts.done + rest.done]

counts == countAllItems(items)
\* allDone without the guard on an empty list
allDone_noGuard == counts.done = counts.total

allDone == counts.total > 0 /\ counts.done = counts.total

(***************************************************************************)
(* Inputs of the session.                                                  *)
(***************************************************************************)
\* what the user may type into the add-task input
InputTexts == {"", " ", "a", " b "}
\* String.prototype.trim on the texts the user may type
trim(s) == CASE s = " " -> ""
             [] s = " b " -> "b"
             [] OTHER -> s
\* markup strings the notes editor hands to its onChange callback
NoteTexts == {"", "- [x] call"}

\* the droppable id of DeleteZone, the string "delete-zone"
DeleteZone == <<-1>>

\* the ids of the nodes SortableItem renders
VisibleIds == {flattenItems(items)[k] : k \in 1..Len(flattenItems(items))}

(***************************************************************************)
(* Drag and drop.                                                          *)
(***************************************************************************)
\* Array.prototype.findIndex on the root list: 0-based, -1 when there is none
findIndex(list, id) ==
  IF \E k \in 1..Len(list) : list[k].id = id
    THEN (CHOOSE k \in 1..Len(list) :
            list[k].id = id /\ \A j \in 1..(k - 1) : list[j].id # id) - 1
    ELSE -1

\* arrayMove of @dnd-kit/sortable: splice the element out at `from`, splice it
\* back in at `to` (both 0-based)
\* a move that exchanges the two elements
arrayMove_swap(array, from, to) ==
  [array EXCEPT ![from + 1] = array[to + 1], ![to + 1] = array[from + 1]]

arrayMove(array, from, to) ==
  LET elem == array[from + 1]
      without == SubSeq(array, 1, from) \o SubSeq(array, from + 2, Len(array))
  IN  SubSeq(without, 1, to) \o <<elem>> \o SubSeq(without, to + 1, Len(without))

\* the list handleDragEnd stores for a drag of `active` dropped on `over`
\* (over: null, the delete zone, or a rendered item)
\* a drop handler that moves when either index was found; arrayMove then
\* takes a missing index, -1, for the last position
dragEndItems_eitherFound(list, active, over) ==
  IF over = Some(DeleteZone) THEN deleteItemById(list, active)
  ELSE IF over # Undefined /\ Some(active) # over
    THEN LET oldIndex == findIndex(list, active)
             newIndex == findIndex(list, over[1])
             last == Len(list) - 1
         IN  IF oldIndex # -1 \/ newIndex # -1
               THEN arrayMove(list, IF oldIndex = -1 THEN last ELSE oldIndex,
                              IF newIndex = -1 THEN last ELSE newIndex)
               ELSE list
    ELSE list

dragEndItems(list, active, over) ==
  IF over = Some(DeleteZone) THEN deleteItemById(list, active)
  ELSE IF over # Undefined /\ Some(active) # over
    THEN LET oldIndex == findIndex(list, active)
             newIndex == findIndex(list, over[1])
         IN  IF oldIndex # -1 /\ newIndex # -1
               THEN arrayMove(list, oldIndex, newIndex)
               ELSE list
    ELSE list

(***************************************************************************)
(* The event handlers.  The task list, the add-task input and the drag     *)
(* targets are rendered while not allDone, a drag in progress or not: the  *)
(* keyboard sensor carries a drag while the pointer works the other        *)
(* controls, and a cancelled drag leaves activeId set.                     *)
(***************************************************************************)
Budget == nops < MaxOps
\* React runs the effects of a render before it handles the next event
EffectsFlushed == effectDep = allDone
ListShown == ~allDone /\ EffectsFlushed

\* a toggle that flipped the flag on the node object itself: the seed array
\* holds the same objects until the first rebuild, so it would change with it
handleToggle_inPlace(id) ==
  /\ items' = toggleItemById(items, id)
  /\ seed' = toggleItemById(seed, id)
  /\ UNCHANGED <<newTaskText, selectedId, activeId, isOverDelete, clock>>

handleToggle(id) ==
  /\ items' = toggleItemById(items, id)
  /\ UNCHANGED <<newTaskText, selectedId, activeId, isOverDelete, clock, seed>>

handleDelete(id) ==
  /\ items' = deleteItemById(items, id)
  /\ UNCHANGED <<newTaskText, selectedId, activeId, isOverDelete, clock, seed>>

handleAddChild(parentId) ==
  /\ \E nows \in DateNowFor(items, parentId) :
       /\ items' = addChildById(items, parentId, nows)
       /\ clock' = IF nows = <<>> THEN clock ELSE nows[Len(nows)]
  /\ UNCHANGED <<newTaskText, selectedId, activeId, isOverDelete, seed>>

handleToggleExpand(id) ==
  /\ items' = toggleExpandById(items, id)
  /\ UNCHANGED <<newTaskText, selectedId, activeId, isOverDelete, clock, seed>>

\* the node handleAddTask creates from the typed text at millisecond now
newTask(text, now) ==
  [id |-> <<TaskSeg, now>>, text |-> trim(text), done |-> FALSE,
   children |-> <<>>, expanded |-> Some(TRUE), notes |-> Undefined]

\* an add-task that puts the new task first
handleAddTask_prepend ==
  /\ IF trim(newTaskText) = ""
       THEN UNCHANGED <<items, newTaskText, clock>>
       ELSE \E now \in DateNow :
              /\ items' = <<newTask(newTaskText, now)>> \o items
              /\ newTaskText' = ""
              /\ clock' = now
  /\ UNCHANGED <<selectedId, activeId, isOverDelete, seed>>

\* an add-task without the check for blank input
handleAddTask_noGuard ==
  /\ \E now \in DateNow :
       /\ items' = Append(items, newTask(newTaskText, now))
       /\ newTaskText' = ""
       /\ clock' = now
  /\ UNCHANGED <<selectedId, activeId, isOverDelete, seed>>

handleAddTask ==
  /\ IF trim(newTaskText) = ""
       THEN UNCHANGED <<items, newTaskText, clock>>
       ELSE \E now \in DateNow :
              /\ items' = Append(items, newTask(newTaskText, now))
              /\ newTaskText' = ""
              /\ clock' = now
  /\ UNCHANGED <<selectedId, activeId, isOverDelete, seed>>

\* handleUpdateNotes(id, notes) as the closure of one render holds it:
\* setItems(updateItemNotes(items, id, notes)) with that render's items
handleUpdateNotes(closure, id, notes) ==
  /\ items' = updateItemNotes(closure, id, notes)
  /\ UNCHANGED <<newTaskText, selectedId, activeId, isOverDelete, clock, seed>>

handleDragStart(id) ==
  /\ activeId' = Some(id)
  /\ UNCHANGED <<items, newTaskText, selectedId, isOverDelete, clock, seed>>

handleDragOver(over) ==
  /\ isOverDelete' = (over = Some(DeleteZone))
  /\ UNCHANGED <<items, newTaskText, selectedId, activeId, clock, seed>>

handleDragEnd(active, over) ==
  /\ items' = dragEndItems(items, active, over)
  /\ activeId' = Undefined
  /\ isOverDelete' = FALSE
  /\ UNCHANGED <<newTaskText, selectedId, clock, seed>>

\* the details panel shows the first node carrying selectedId, if any
selectedItem == IF selectedId = Undefined THEN Undefined
                ELSE findItemById(items, selectedId[1])

\* what a drag can be over when every droppable is rendered: nothing, the
\* delete zone, a rendered item
DropTargets == {Undefined, Some(DeleteZone)} \cup {Some(i) : i \in VisibleIds}

\* the droppables of the current render: the sortable items and, during a
\* drag, the delete zone are rendered while not allDone only
Droppables == IF allDone THEN {Undefined} ELSE DropTargets

(***************************************************************************)
(* The notes editor.  LiveMarkdownEditor is mounted while a selected task  *)
(* exists, loads its value once per mount, and reports a change by an      *)
(* async callback: it awaits the markdown of the document and then calls   *)
(* onChange.  The first revision of the editor calls the onChange it       *)
(* subscribed with; the second calls onChangeRef.current, which follows    *)
(* the renders for as long as the editor is mounted.                       *)
(***************************************************************************)
\* the onChange prop of the current render: handleUpdateNotes and
\* selectedItem.id as that render's closure holds them
onChange == [id |-> selectedItem[1].id, items |-> items]

EditorMounted == selectedItem # Undefined

\* what the render after a handler does to the editor, `changes` being the
\* changes in flight: a first render with a selected task mounts an editor
\* that loads that task's notes; a render without one unmounts it, and
\* onChangeRef keeps the onChange of the last render before
editorFollows(changes) ==
  /\ docOrigin' = IF selectedItem' = Undefined THEN Undefined
                  ELSE IF EditorMounted THEN docOrigin
                  ELSE Some(selectedItem'[1].id)
  /\ inFlight' = IF selectedItem' = Undefined /\ EditorMounted
                   THEN {[d EXCEPT !.cb = IF d.cb = Undefined THEN Some(onChange)
                                          ELSE d.cb] : d \in changes}
                   ELSE changes

\* the callback a change in flight will call
target(d) == IF d.cb = Undefined THEN onChange ELSE d.cb[1]

(***************************************************************************)
(* The actions of the session.  Each ends with the render that follows     *)
(* the handler.                                                            *)
(***************************************************************************)
Toggle ==
  /\ ListShown /\ Budget
  /\ \E id \in VisibleIds : handleToggle(id)
  /\ editorFollows(inFlight)
  /\ nops' = nops + 1
  /\ UNCHANGED <<celebration, nresets, nedits>>

Delete ==
  /\ ListShown /\ Budget
  /\ \E id \in VisibleIds : handleDelete(id)
  /\ editorFollows(inFlight)
  /\ nops' = nops + 1
  /\ UNCHANGED <<celebration, nresets, nedits>>

AddChild ==
  /\ ListShown /\ Budget
  /\ \E id \in VisibleIds : handleAddChild(id)
  /\ editorFollows(inFlight)
  /\ nops' = nops + 1
  /\ UNCHANGED <<celebration, nresets, nedits>>

\* the chevron is rendered only for an item with at least one child
ToggleExpand ==
  /\ ListShown /\ Budget
  /\ \E id \in VisibleIds :
       /\ findItemById(items, id)[1].children # <<>>
       /\ handleToggleExpand(id)
  /\ editorFollows(inFlight)
  /\ nops' = nops + 1
  /\ UNCHANGED <<celebration, nresets, nedits>>

TypeTask ==
  /\ ListShown /\ Budget
  /\ \E t \in InputTexts \ {newTaskText} :
       /\ newTaskText' = t
       /\ UNCHANGED <<items, selectedId, activeId, isOverDelete, clock, seed>>
  /\ editorFollows(inFlight)
  /\ nops' = nops + 1
  /\ UNCHANGED <<celebration, nresets, nedits>>

AddTask ==
  /\ ListShown /\ Budget
  /\ handleAddTask
  /\ editorFollows(inFlight)
  /\ nops' = nops + 1
  /\ UNCHANGED <<celebration, nresets, nedits>>

\* the file button of a task: setSelectedId(selectedId === id ? null : id)
OpenDetails ==
  /\ ListShown /\ Budget
  /\ \E id \in VisibleIds :
       /\ selectedId' = (IF selectedId = Some(id) THEN Undefined ELSE Some(id))
       /\ UNCHANGED <<items, newTaskText, activeId, isOverDelete, clock, seed>>
  /\ editorFollows(inFlight)
  /\ nops' = nops + 1
  /\ UNCHANGED <<celebration, nresets, nedits>>

\* the close button of the panel, rendered while a selected task exists
CloseDetails ==
  /\ selectedItem # Undefined /\ EffectsFlushed /\ Budget
  /\ selectedId' = Undefined
  /\ UNCHANGED <<items, newTaskText, activeId, isOverDelete, clock, seed>>
  /\ editorFollows(inFlight)
  /\ nops' = nops + 1
  /\ UNCHANGED <<celebration, nresets, nedits>>

\* editor.onChange(handleChange) of the first revision: the callback holds
\* the onChange of the render that subscribed it.  The sessions explored
\* have at most MaxEdits changes, one in flight at a time
EditorChangeCaptured ==
  /\ EditorMounted /\ EffectsFlushed /\ nedits < MaxEdits /\ inFlight = {}
  /\ \E n \in NoteTexts :
       inFlight' = {[text |-> n, origin |-> docOrigin[1], cb |-> Some(onChange)]}
  /\ nedits' = nedits + 1
  /\ UNCHANGED <<items, newTaskText, selectedId, activeId, isOverDelete, clock,
                 nops, seed, celebration, nresets, docOrigin>>

\* editor.onChange of the second revision: the callback reads onChangeRef
\* when the markdown is there
EditorChangeViaRef ==
  /\ EditorMounted /\ EffectsFlushed /\ nedits < MaxEdits /\ inFlight = {}
  /\ \E n \in NoteTexts :
       inFlight' = {[text |-> n, origin |-> docOrigin[1], cb |-> Undefined]}
  /\ nedits' = nedits + 1
  /\ UNCHANGED <<items, newTaskText, selectedId, activeId, isOverDelete, clock,
                 nops, seed, celebration, nresets, docOrigin>>

\* the awaited markdown arrives: onChange(markdown), that is
\* handleUpdateNotes(selectedItem.id, markdown) of the callback's render
Deliver ==
  /\ EffectsFlushed
  /\ \E d \in inFlight :
       /\ handleUpdateNotes(target(d).items, target(d).id, d.text)
       /\ editorFollows(inFlight \ {d})
  /\ UNCHANGED <<nops, celebration, nresets, nedits>>

\* a drag is two operations, the pick-up and the drop: it starts only when the
\* session has room for both
DragStart ==
  /\ ListShown /\ nops + 2 <= MaxOps
  /\ \E id \in VisibleIds : handleDragStart(id)
  /\ editorFollows(inFlight)
  /\ nops' = nops + 1
  /\ UNCHANGED <<celebration, nresets, nedits>>

\* DndContext is rendered in every render, the all-done view included: a
\* drag picked up before the list was completed still reports its moves and
\* its drop
DragOver ==
  /\ activeId # Undefined /\ EffectsFlushed
  /\ \E over \in Droppables : handleDragOver(over)
  /\ editorFollows(inFlight)
  /\ UNCHANGED <<nops, celebration, nresets, nedits>>

DragEnd ==
  /\ activeId # Undefined /\ EffectsFlushed /\ Budget
  /\ \E over \in Droppables : handleDragEnd(activeId[1], over)
  /\ editorFollows(inFlight)
  /\ nops' = nops + 1
  /\ UNCHANGED <<celebration, nresets, nedits>>

Init ==
  /\ items = initialItems
  /\ newTaskText = ""
  /\ selectedId = Undefined
  /\ activeId = Undefined
  /\ isOverDelete = FALSE
  /\ clock = ClockStart
  /\ nops = 0
  /\ seed = initialItems
  /\ celebrating = FALSE
  /\ wasAllDoneRef = FALSE
  /\ timers = {}
  /\ cleanup = Undefined
  /\ effectDep = FALSE
  /\ nresets = 0
  /\ docOrigin = Undefined
  /\ inFlight = {}
  /\ nedits = 0

Next ==
  \/ Toggle \/ Delete \/ AddChild \/ ToggleExpand \/ TypeTask \/ AddTask
  \/ OpenDetails \/ CloseDetails
  \/ EditorChangeCaptured \/ EditorChangeViaRef \/ Deliver
  \/ DragStart \/ DragOver \/ DragEnd

\* the TodoCard with the details panel: every handler of the list and of
\* the notes editor
Spec == Init /\ [][Next]_vars

NextCard ==
  \/ Toggle \/ Delete \/ AddChild \/ ToggleExpand \/ TypeTask \/ AddTask
  \/ DragStart \/ DragOver \/ DragEnd

\* the TodoCard of to-do-card.tsx, the one the page renders: the list without
\* the details panel
SpecCard == Init /\ [][NextCard]_vars

NextPanel ==
  \/ OpenDetails \/ CloseDetails
  \/ EditorChangeCaptured \/ EditorChangeViaRef \/ Deliver
  \/ Delete

\* sessions in the details panel: tasks are selected, their notes edited,
\* and tasks deleted beside the open panel
SpecPanel == Init /\ [][NextPanel]_vars

(***************************************************************************)
(* Completion: the celebration effect, its timer and reset.                *)
(***************************************************************************)
\* clearTimeout(t) run by the cleanup c of the previous effect run, if it
\* returned one: the handle leaves the pending timers
\* a cleanup that leaves the timeout pending
clearTimeout_forgotten(pending, c) == pending

clearTimeout(pending, c) == IF c = Undefined THEN pending ELSE pending \ {c[1]}

\* the handle setTimeout returns: a fresh one for each celebration
newTimer == nresets

\* useEffect(..., [allDone]): runs after a render in which allDone has changed,
\* the previous run's cleanup first
\* the effect without the re-arming branch: leaving allDone clears the overlay
\* but keeps wasAllDoneRef set
RunEffect_noRearm ==
  /\ effectDep # allDone
  /\ IF allDone /\ ~wasAllDoneRef
       THEN /\ celebrating' = TRUE
            /\ wasAllDoneRef' = TRUE
            /\ timers' = clearTimeout(timers, cleanup) \cup {newTimer}
            /\ cleanup' = Some(newTimer)
       ELSE /\ timers' = clearTimeout(timers, cleanup)
            /\ cleanup' = Undefined
            /\ IF ~allDone
                 THEN celebrating' = FALSE /\ UNCHANGED wasAllDoneRef
                 ELSE UNCHANGED <<wasAllDoneRef, celebrating>>
  /\ effectDep' = allDone
  /\ UNCHANGED <<items, newTaskText, selectedId, activeId, isOverDelete, clock,
                 nops, seed, nresets, notesEditor>>

\* the effect without setCelebrating(false) on leaving allDone
RunEffect_keepsOverlay ==
  /\ effectDep # allDone
  /\ IF allDone /\ ~wasAllDoneRef
       THEN /\ celebrating' = TRUE
            /\ wasAllDoneRef' = TRUE
            /\ timers' = clearTimeout(timers, cleanup) \cup {newTimer}
            /\ cleanup' = Some(newTimer)
       ELSE /\ timers' = clearTimeout(timers, cleanup)
            /\ cleanup' = Undefined
            /\ IF ~allDone
                 THEN wasAllDoneRef' = FALSE /\ UNCHANGED celebrating
                 ELSE UNCHANGED <<wasAllDoneRef, celebrating>>
  /\ effectDep' = allDone
  /\ UNCHANGED <<items, newTaskText, selectedId, activeId, isOverDelete, clock,
                 nops, seed, nresets, notesEditor>>

RunEffect ==
  /\ effectDep # allDone
  /\ IF allDone /\ ~wasAllDoneRef
       THEN /\ celebrating' = TRUE
            /\ wasAllDoneRef' = TRUE
            /\ timers' = clearTimeout(timers, cleanup) \cup {newTimer}
            /\ cleanup' = Some(newTimer)
       ELSE /\ timers' = clearTimeout(timers, cleanup)
            /\ cleanup' = Undefined
            /\ IF ~allDone
                 THEN wasAllDoneRef' = FALSE /\ celebrating' = FALSE
                 ELSE UNCHANGED <<wasAllDoneRef, celebrating>>
  /\ effectDep' = allDone
  /\ UNCHANGED <<items, newTaskText, selectedId, activeId, isOverDelete, clock,
                 nops, seed, nresets, notesEditor>>

\* the 4000 ms timeout fires: setCelebrating(false)
\* a timeout whose callback leaves the overlay on
TimerFire_keepsOverlay ==
  /\ EffectsFlushed
  /\ \E t \in timers : timers' = timers \ {t}
  /\ UNCHANGED <<items, newTaskText, selectedId, activeId, isOverDelete, clock,
                 nops, seed, celebrating, wasAllDoneRef, cleanup, effectDep,
                 nresets, notesEditor>>

TimerFire ==
  /\ EffectsFlushed
  /\ \E t \in timers :
       /\ timers' = timers \ {t}
       /\ celebrating' = FALSE
  /\ UNCHANGED <<items, newTaskText, selectedId, activeId, isOverDelete, clock,
                 nops, seed, wasAllDoneRef, cleanup, effectDep, nresets, notesEditor>>

resetList ==
  /\ items' = seed
  /\ UNCHANGED <<newTaskText, selectedId, activeId, isOverDelete, clock, seed>>

\* the Reset button is rendered only while allDone
Reset ==
  /\ allDone /\ EffectsFlushed /\ nresets < MaxResets
  /\ resetList
  /\ nresets' = nresets + 1
  /\ editorFollows(inFlight)
  /\ UNCHANGED <<nops, celebration, nedits>>

\* checking and deleting tasks without the bound on the operations of a session
ToggleUnbounded ==
  /\ ListShown
  /\ \E id \in VisibleIds : handleToggle(id)
  /\ editorFollows(inFlight)
  /\ UNCHANGED <<nops, celebration, nresets, nedits>>

DeleteUnbounded ==
  /\ ListShown
  /\ \E id \in VisibleIds : handleDelete(id)
  /\ editorFollows(inFlight)
  /\ UNCHANGED <<nops, celebration, nresets, nedits>>

NextDone == ToggleUnbounded \/ DeleteUnbounded \/ Reset \/ RunEffect \/ TimerFire

\* sessions of checking, deleting and resetting, through ALL_DONE and back
SpecDone == Init /\ [][NextDone]_vars

NextLive == ToggleUnbounded \/ Reset \/ RunEffect \/ TimerFire

\* sessions in which the list is completed by checking tasks; the browser
\* fires a pending timeout and React runs a pending effect
SpecLive ==
  Init /\ [][NextLive]_vars /\ WF_vars(TimerFire) /\ WF_vars(RunEffect)

(***************************************************************************)
(* Notes edited while the list is worked off: the panel, the editor and    *)
(* the delete buttons, through ALL_DONE.                                   *)
(***************************************************************************)
\* the file button, for the first clicks of the session
OpenDetailsFirst == nops < MaxSelects /\ OpenDetails

NextNotes ==
  \/ OpenDetailsFirst
  \/ EditorChangeCaptured
  \/ EditorChangeViaRef
  \/ Deliver
  \/ DeleteUnbounded
  \/ RunEffect

\* sessions of opening the details panel, editing notes and deleting tasks
SpecNotes == Init /\ [][NextNotes]_vars

(***************************************************************************)
(* Vocabulary of the properties: the nodes of a tree by position.          *)
(***************************************************************************)
RECURSIVE AllNodes(_)
\* every node of the tree at every depth, in depth-first pre-order
AllNodes(list) ==
  IF list = <<>> THEN <<>>
  ELSE <<Head(list)>> \o AllNodes(Head(list).children) \o AllNodes(Tail(list))

Ids(list) == LET nodes == AllNodes(list)
             IN  {nodes[k].id : k \in 1..Len(nodes)}

\* the fields of a node other than its children
Fields(n) == [id |-> n.id, text |-> n.text, done |-> n.done,
              expanded |-> n.expanded, notes |-> n.notes]

RECURSIVE Paths(_)
\* the positions of a tree: index paths from the root list
Paths(list) ==
  UNION {{<<k>>} \cup {<<k>> \o q : q \in Paths(list[k].children)} : k \in 1..Len(list)}

RECURSIVE At(_, _)
\* the node at a position
At(list, path) ==
  IF Len(path) = 1 THEN list[path[1]]
  ELSE At(list[path[1]].children, Tail(path))

RECURSIVE Entries(_, _)
\* pre-order listing of the tree: each node's fields with the ids of its ancestors
Entries(list, anc) ==
  IF list = <<>> THEN <<>>
  ELSE <<[anc |-> anc, node |-> Fields(Head(list))]>>
         \o Entries(Head(list).children, Append(anc, Head(list).id))
         \o Entries(Tail(list), anc)

\* the ids of the nodes whose done flag is true
DoneIds(list) ==
  {AllNodes(list)[k].id : k \in {j \in 1..Len(AllNodes(list)) : AllNodes(list)[j].done}}

SeedIds == Ids(initialItems)
\* ids handed to the operations: those of the tree, those of the seed (absent
\* once deleted) and ids that name no node yet
ProbeIds == Ids(items) \cup SeedIds
              \cup {<<7>>, <<TaskSeg, ClockStart>>, <<2, ClockStart>>}

(***************************************************************************)
(* C1.  For every id that names no node of the tree, toggle done, toggle   *)
(* expanded, add child, delete, set notes and a drop with that id as the   *)
(* dragged or the target item all return a tree equal to the one given.    *)
(***************************************************************************)
MissingIdIsNoOp ==
  \A i \in ProbeIds \ Ids(items) :
    /\ toggleItemById(items, i) = items
    /\ toggleExpandById(items, i) = items
    /\ \A nows \in DateNowFor(items, i) : addChildById(items, i, nows) = items
    /\ deleteItemById(items, i) = items
    /\ \A n \in NoteTexts : updateItemNotes(items, i, n) = items
    /\ \A over \in DropTargets : dragEndItems(items, i, over) = items
    /\ \A a \in Ids(items) : dragEndItems(items, a, Some(i)) = items

\* the subtask being dragged has been deleted by its delete button: the drop
\* will hand handleDragEnd an id that names no node
DraggedTaskDeleted ==
  /\ activeId = Some(<<2, 1>>)
  /\ <<2, 1>> \notin Ids(items)
  /\ <<2>> \in Ids(items)

(***************************************************************************)
(* C2.  Deleting a present id (by the delete button or by a drop on the    *)
(* delete zone) removes every node with that id together with all its      *)
(* descendants, and keeps every other node, with the same fields, the same *)
(* ancestors and in the same order.                                        *)
(***************************************************************************)
DeleteRemovesSubtree ==
  \A i \in Ids(items) :
    LET kept(e) == e.node.id # i /\ \A k \in 1..Len(e.anc) : e.anc[k] # i
        expected == SelectSeq(Entries(items, <<>>), kept)
    IN  /\ Entries(deleteItemById(items, i), <<>>) = expected
        /\ Entries(dragEndItems(items, i, Some(DeleteZone)), <<>>) = expected
        /\ Len(expected) < Len(Entries(items, <<>>))

\* task "2" has been deleted with both its subtasks; the other seed nodes remain
DeletedWithChildren ==
  Ids(items) = SeedIds \ {<<2>>, <<2, 1>>, <<2, 2>>}

(***************************************************************************)
(* C3.  All node ids of the tree are pairwise distinct across all depths.  *)
(***************************************************************************)
IdsDistinct ==
  \A k, j \in 1..Len(AllNodes(items)) :
    AllNodes(items)[k].id = AllNodes(items)[j].id => k = j

(***************************************************************************)
(* C4.  toggleDone is an involution: toggling a present id twice gives     *)
(* back the tree.                                                          *)
(***************************************************************************)
ToggleInvolution ==
  \A i \in Ids(items) : toggleItemById(toggleItemById(items, i), i) = items

\* the not-done seed subtask "2-2" has been toggled to done
ToggledSubtask ==
  /\ <<2, 2>> \in Ids(items)
  /\ findItemById(items, <<2, 2>>)[1].done

(***************************************************************************)
(* C5.  toggleDone flips the done flag of the nodes carrying the id and    *)
(* changes nothing else: same positions, and every other node (children,   *)
(* descendants and ancestors included) keeps all its fields.               *)
(***************************************************************************)
ToggleFlipsOnlyMatch ==
  \A i \in Ids(items) :
    LET R == toggleItemById(items, i)
    IN  /\ Paths(R) = Paths(items)
        /\ \A q \in Paths(items) :
             Fields(At(R, q)) =
               IF At(items, q).id = i
                 THEN [Fields(At(items, q)) EXCEPT !.done = ~At(items, q).done]
                 ELSE Fields(At(items, q))

\* the parent task "2" has been toggled to done while its subtask "2-2" is not done
ToggledParentOnly ==
  /\ {<<2>>, <<2, 2>>} \subseteq Ids(items)
  /\ findItemById(items, <<2>>)[1].done
  /\ ~findItemById(items, <<2, 2>>)[1].done

(***************************************************************************)
(* C6.  addChild on a present parent id gives the nodes carrying that id   *)
(* exactly one more child and expanded = true, and leaves every other      *)
(* field of them and every other node as it was.                           *)
(***************************************************************************)
AddChildFrame ==
  LET before == Paths(items)
  IN  \A p \in Ids(items) : \A nows \in DateNowFor(items, p) :
    LET R == addChildById(items, p, nows)
        isParent(q) == At(items, q).id = p
    IN  /\ Paths(R) = before
              \cup {Append(q, Len(At(items, q).children) + 1) :
                      q \in {x \in before : isParent(x)}}
        /\ \A q \in before :
             /\ Len(At(R, q).children) =
                  Len(At(items, q).children) + (IF isParent(q) THEN 1 ELSE 0)
             /\ Fields(At(R, q)) =
                  IF isParent(q)
                    THEN [Fields(At(items, q)) EXCEPT !.expanded = Some(TRUE)]
                    ELSE Fields(At(items, q))

\* a subtask has been added under the seed subtask "2-2", which had no children
\* and no expanded field: it has one child and expanded = true, and its parent
\* "2" still has its two children
AddedUnderSubtask ==
  /\ {<<2>>, <<2, 2>>} \subseteq Ids(items)
  /\ Len(findItemById(items, <<2, 2>>)[1].children) = 1
  /\ findItemById(items, <<2, 2>>)[1].expanded = Some(TRUE)
  /\ Len(findItemById(items, <<2>>)[1].children) = 2

(***************************************************************************)
(* C7.  The node addChild creates is the last child of the parent, has     *)
(* done = false, no children, expanded = true, and an id that no node of   *)
(* the tree had before the call.                                           *)
(***************************************************************************)
AddChildFreshNode ==
  \A p \in Ids(items) : \A nows \in DateNowFor(items, p) :
    LET R == addChildById(items, p, nows)
    IN  \A q \in Paths(items) :
          At(items, q).id = p =>
            LET created == At(R, q).children[Len(At(R, q).children)]
            IN  /\ Len(At(R, q).children) = Len(At(items, q).children) + 1
                /\ created.done = FALSE
                /\ created.children = <<>>
                /\ created.expanded = Some(TRUE)
                /\ created.id \notin Ids(items)

(***************************************************************************)
(* C8.  deleteNode is idempotent: deleting the same id twice gives the     *)
(* same tree as deleting it once, for present and for absent ids.          *)
(***************************************************************************)
DeleteIdempotent ==
  \A i \in ProbeIds :
    deleteItemById(deleteItemById(items, i), i) = deleteItemById(items, i)

\* the nested subtask "2-2" has been deleted; its parent and sibling remain
DeletedNested ==
  /\ <<2, 2>> \notin Ids(items)
  /\ {<<2>>, <<2, 1>>} \subseteq Ids(items)

(***************************************************************************)
(* C9.  countProgress returns (total, done) with 0 <= done <= total, total *)
(* the number of nodes of a full depth-first traversal and done the number *)
(* of those nodes whose done flag is true.                                 *)
(***************************************************************************)
CountMatchesTraversal ==
  LET nodes == AllNodes(items)
  IN  /\ counts.total = Len(nodes)
      /\ counts.done = Cardinality({k \in 1..Len(nodes) : nodes[k].done})
      /\ 0 <= counts.done
      /\ counts.done <= counts.total

\* a task with subtasks is collapsed and a task has been added or removed
CollapsedAndResized ==
  /\ \E k \in 1..Len(AllNodes(items)) :
       /\ AllNodes(items)[k].children # <<>>
       /\ AllNodes(items)[k].expanded = Some(FALSE)
  /\ counts.total # 9

(***************************************************************************)
(* C10.  On the seed tree countProgress returns total = 9 and done = 3:    *)
(* the done nodes are "2-1", "5" and "5-1".                                *)
(***************************************************************************)
SeedProgress ==
  items = initialItems =>
    /\ counts = [total |-> 9, done |-> 3]
    /\ DoneIds(items) = {<<2, 1>>, <<5>>, <<5, 1>>}
    /\ Len(items) = 6

\* the claim as written: total = 9 and done = 2, the done nodes being exactly
\* "2-1" and "5-1" and no root task done
SeedProgressAsClaimed ==
  items = initialItems =>
    /\ counts = [total |-> 9, done |-> 2]
    /\ DoneIds(items) = {<<2, 1>>, <<5, 1>>}
    /\ \A k \in 1..Len(items) : ~items[k].done

\* the widget right after construction
FreshSeed ==
  /\ items = initialItems
  /\ nops = 0

(***************************************************************************)
(* C11.  Reset sets the tree to the seed as the module wrote it (same ids,  *)
(* texts, done flags, children and order), whatever was checked or deleted *)
(* before, and no step alters the seed array.                              *)
(***************************************************************************)
ResetRestoresSeed ==
  [][/\ seed' = initialItems
     /\ nresets' # nresets => items' = initialItems]_vars

\* right after a reset of a completed list: the seed is back and the effect
\* has not yet run for the change of allDone
JustReset ==
  /\ nresets = 1
  /\ items = initialItems
  /\ effectDep
\* every node of the tree, at every depth, has done = true
EveryNodeDone(list) ==
  \A k \in 1..Len(AllNodes(list)) : AllNodes(list)[k].done

(***************************************************************************)
(* C12.  In every reachable state the widget is in ALL_DONE exactly when   *)
(* the tree has at least one node and every node, at every depth, has      *)
(* done = true; it is ACTIVE otherwise, the empty tree included.           *)
(***************************************************************************)
AllDoneIffComplete ==
  allDone <=> (items # <<>> /\ EveryNodeDone(items))

\* the claim as written: ALL_DONE exactly when every node has done = true,
\* which the empty tree satisfies
AllDoneIffEveryNodeDone ==
  allDone <=> EveryNodeDone(items)

\* a completed list that still has subtasks
CompletedWithSubtasks ==
  /\ allDone
  /\ \E k \in 1..Len(items) : items[k].children # <<>>
\* a step that turns the celebration on
CelebrationStarts == ~celebrating /\ celebrating'
\* the effect runs for a render in which allDone has become true
EntersAllDone == allDone /\ ~effectDep /\ effectDep'

(***************************************************************************)
(* C13.  The celebration starts exactly once per entry into ALL_DONE: the  *)
(* effect run for a change from ACTIVE to ALL_DONE turns it on, every such  *)
(* run does, the second entry after a reset included, and no other step    *)
(* does, so it is not turned on again while the list stays ALL_DONE, also  *)
(* after the timer has cleared it.                                         *)
(***************************************************************************)
CelebratesOncePerEntry ==
  [][/\ CelebrationStarts <=> EntersAllDone
     /\ (allDone /\ allDone' /\ effectDep) => ~CelebrationStarts]_vars

\* the celebration of the second completion, after a reset
SecondCelebration ==
  /\ nresets = 1
  /\ allDone
  /\ celebrating
(***************************************************************************)
(* C14.  Whenever the celebration is on it is eventually off: the timer    *)
(* fires and clears it while the list stays ALL_DONE, and the effect run   *)
(* for leaving ALL_DONE clears it otherwise.                               *)
(***************************************************************************)
CelebrationEnds == celebrating ~> ~celebrating

\* the first celebration, its timeout pending
CelebrationRunning ==
  /\ celebrating
  /\ nresets = 0
  /\ timers = {0}
(***************************************************************************)
(* C15.  Once the effect has run for leaving ALL_DONE no timeout is        *)
(* pending, and a timeout pending during a celebration is the one armed on *)
(* entering the current ALL_DONE episode: a timeout of an earlier episode  *)
(* never fires later.                                                      *)
(***************************************************************************)
TimerOfCurrentEpisode ==
  EffectsFlushed =>
    /\ timers \subseteq {nresets}
    /\ timers # {} => allDone

\* the list was reset while the timeout of the first celebration was pending
ResetWhileTimerPending ==
  /\ nresets = 1
  /\ ~allDone
  /\ celebrating
  /\ timers = {0}
\* a sequence without its k-th element
RemoveAt(s, k) == SubSeq(s, 1, k - 1) \o SubSeq(s, k + 1, Len(s))

\* position k is the first of the root list with its id
FirstAt(list, k) == \A j \in 1..(k - 1) : list[j].id # list[k].id

(***************************************************************************)
(* C16.  A drop of one root task on another root task puts the dragged     *)
(* node, with its children, at the index the target held, keeps the other  *)
(* root nodes as they were and in their order, and keeps the number of     *)
(* root nodes; the first root task dropped on the last one gives the list  *)
(* with only that node moved to the end.                                   *)
(***************************************************************************)
ReorderMovesOne ==
  \A o, n \in 1..Len(items) :
    (items[o].id # items[n].id /\ FirstAt(items, o) /\ FirstAt(items, n)) =>
      LET moved == dragEndItems(items, items[o].id, Some(items[n].id))
      IN  /\ Len(moved) = Len(items)
          /\ moved[n] = items[o]
          /\ RemoveAt(moved, n) = RemoveAt(items, o)
          /\ (o = 1 /\ n = Len(items)) => moved = Tail(items) \o <<Head(items)>>

\* the seed after task "1" was dragged onto task "6"
FirstDraggedToLast ==
  /\ activeId = Undefined
  /\ items = Tail(initialItems) \o <<Head(initialItems)>>
\* the ids of the root tasks
RootIds(list) == {list[k].id : k \in 1..Len(list)}

(***************************************************************************)
(* C17.  A drop in which the dragged task or the target task is a subtask  *)
(* (two subtasks, or a root task and a subtask) leaves the whole tree as   *)
(* it was.                                                                 *)
(***************************************************************************)
NestedDropIsNoOp ==
  \A a, b \in Ids(items) :
    (a \notin RootIds(items) \/ b \notin RootIds(items)) =>
      dragEndItems(items, a, Some(b)) = items

\* a subtask is being dragged
SubtaskDragged ==
  /\ activeId # Undefined
  /\ activeId[1] \in Ids(items) \ RootIds(items)
RECURSIVE OrderKept(_, _, _)
\* the nodes of `old` whose id is not in `gone` are, in their order, the first
\* nodes of `new`, at most one node follows them, and so in every children
\* sequence below them
OrderKept(old, new, gone) ==
  LET surviving == SelectSeq(old, LAMBDA n : n.id \notin gone)
  IN  /\ Len(surviving) <= Len(new)
      /\ Len(new) <= Len(surviving) + 1
      /\ \A k \in 1..Len(surviving) :
           /\ new[k].id = surviving[k].id
           /\ OrderKept(surviving[k].children, new[k].children, gone)

\* a drop that is not a drop on the delete zone: only handleDragEnd clears
\* activeId, and its delete removes a node
Reorder == activeId # Undefined /\ activeId' = Undefined
             /\ counts'.total >= counts.total

(***************************************************************************)
(* C18.  Every operation other than reorder (toggle done, toggle expanded, *)
(* add child, add task, delete, set notes) keeps the surviving nodes in    *)
(* their order at the root and in every children sequence, and a new node  *)
(* comes after all of them: in every step of the list that is not a        *)
(* reorder, and for each helper applied to any id on any reachable tree.   *)
(***************************************************************************)
OrderPreserved ==
  /\ [](\A i \in ProbeIds :
          /\ OrderKept(items, toggleItemById(items, i), {})
          /\ OrderKept(items, toggleExpandById(items, i), {})
          /\ OrderKept(items, deleteItemById(items, i), {i})
          /\ \A nows \in DateNowFor(items, i) :
               OrderKept(items, addChildById(items, i, nows), {})
          /\ \A n \in NoteTexts : OrderKept(items, updateItemNotes(items, i, n), {}))
  /\ [][(items' # items /\ ~Reorder) =>
          LET gone == Ids(items) \ Ids(items')
          IN  OrderKept(items, items', gone)]_vars

\* a task was added to the seed: it is the seventh root task
TaskAddedLast ==
  /\ Len(items) = 7
  /\ SubSeq(items, 1, 6) = initialItems
  /\ items[7].id[1] = TaskSeg
(***************************************************************************)
(* C19.  Setting the notes of a present id stores the given text as it is  *)
(* on the nodes carrying the id and changes nothing else: same positions,  *)
(* the same id, text, done, expanded and children on those nodes, and      *)
(* every other node keeps all its fields.                                  *)
(***************************************************************************)
NotesReplacedVerbatim ==
  \A i \in Ids(items) : \A n \in NoteTexts :
    LET R == updateItemNotes(items, i, n)
    IN  /\ Paths(R) = Paths(items)
        /\ \A q \in Paths(items) :
             Fields(At(R, q)) =
               IF At(items, q).id = i
                 THEN [Fields(At(items, q)) EXCEPT !.notes = Some(n)]
                 ELSE Fields(At(items, q))

\* a subtask carries notes written in the details panel
SubtaskHasNotes ==
  \E q \in Paths(items) :
    /\ Len(q) = 2
    /\ At(items, q).notes = Some("- [x] call")
(***************************************************************************)
(* C20.  An id is never reused after deletion: a seed id that is no longer *)
(* in the tree, which only a delete can have removed, is not in the tree   *)
(* after any later step either.                                            *)
(***************************************************************************)
DeletedIdNeverBack ==
  [][\A i \in SeedIds : i \notin Ids(items) => i \notin Ids(items')]_vars
RECURSIVE WithoutExpanded(_)
\* the tree with the expanded flag taken off every node
WithoutExpanded(list) ==
  [k \in 1..Len(list) |->
     [list[k] EXCEPT !.expanded = Undefined,
                     !.children = WithoutExpanded(list[k].children)]]

(***************************************************************************)
(* C21.  The expanded flag has no effect on counting or deletion: toggling *)
(* expanded on any node leaves the counts, and so allDone, as they are;    *)
(* the total counts every node, those under collapsed nodes included; and  *)
(* deleting an id removes the same nodes whatever the flags are: from the  *)
(* tree with its flags and from the tree without any flag the delete gives *)
(* the same tree, the flags aside.                                         *)
(***************************************************************************)
ExpandedIsUiOnly ==
  /\ counts.total = Len(AllNodes(items))
  /\ countAllItems(WithoutExpanded(items)) = counts
  /\ \A i \in Ids(items) :
       /\ countAllItems(toggleExpandById(items, i)) = counts
       /\ deleteItemById(WithoutExpanded(items), i) =
            WithoutExpanded(deleteItemById(items, i))
       /\ i \notin Ids(deleteItemById(toggleExpandById(items, i), i))

\* task "2" is collapsed and its two subtasks are still counted
CollapsedStillCounted ==
  /\ \E k \in 1..Len(items) :
       /\ items[k].expanded = Some(FALSE)
       /\ Len(items[k].children) = 2
  /\ counts.total = 9
\* p is a position above q
Above(p, q) == Len(p) < Len(q) /\ SubSeq(q, 1, Len(p)) = p

\* p comes before q in pre-order: p is above q, or they part at an index
\* where p takes the earlier sibling
Before(p, q) ==
  \/ Above(p, q)
  \/ \E k \in 1..Len(p) :
       /\ k <= Len(q)
       /\ SubSeq(p, 1, k - 1) = SubSeq(q, 1, k - 1)
       /\ p[k] < q[k]

\* the positions all of whose ancestors are expanded
ShownPaths(list) ==
  {q \in Paths(list) :
     \A p \in Paths(list) : Above(p, q) => At(list, p).expanded = Some(TRUE)}

(***************************************************************************)
(* C22.  flattenVisible lists, in pre-order along the stored sibling       *)
(* order, exactly the ids of the nodes all of whose ancestors are          *)
(* expanded: every root id, and of a collapsed node its own id and none of *)
(* its descendants'.                                                       *)
(***************************************************************************)
FlattenListsShown ==
  LET shown == ShownPaths(items)
      flat == flattenItems(items)
  IN  /\ Len(flat) = Cardinality(shown)
      /\ \A q \in shown :
           flat[1 + Cardinality({p \in shown : Before(p, q)})] = At(items, q).id
      /\ \A k \in 1..Len(items) : <<k>> \in shown

\* a collapsed task keeps its subtasks out of the listing
CollapsedHidesSubtasks ==
  /\ \E k \in 1..Len(items) :
       /\ items[k].expanded = Some(FALSE)
       /\ items[k].children # <<>>
       /\ \A c \in 1..Len(items[k].children) : items[k].children[c].id \notin VisibleIds
  /\ Len(flattenItems(items)) < counts.total
(***************************************************************************)
(* C23.  Every mutation of the tree is applied inside the event callback   *)
(* that caused it, with nothing awaited in between: when a callback has    *)
(* returned, no update of the tree is still outstanding.                   *)
(***************************************************************************)
MutationsSynchronous == inFlight = {}
\* two trees with the same nodes at the same positions, equal in every field
\* but the notes, which differ on the nodes of one id at most
NotesOnly(old, new) ==
  /\ Paths(new) = Paths(old)
  /\ \A q \in Paths(old) :
       [Fields(At(new, q)) EXCEPT !.notes = Undefined] =
         [Fields(At(old, q)) EXCEPT !.notes = Undefined]
  /\ \E i \in Ids(old) \cup {Undefined} :
       \A q \in Paths(old) :
         At(old, q).id # i => At(new, q).notes = At(old, q).notes

\* a step in which the markdown of an editor change is handed to onChange
Delivered == Cardinality(inFlight') < Cardinality(inFlight)

(***************************************************************************)
(* C24.  A notes edit never undoes another mutation: the tree after the    *)
(* notes update is the tree as the mutations applied since the editor      *)
(* change left it, but for the notes of the edited node.                   *)
(***************************************************************************)
NotesEditKeepsMutations ==
  [][Delivered => NotesOnly(items, items')]_vars
(***************************************************************************)
(* C25.  A notes edit is stored only on the task whose notes the editor    *)
(* was loaded from: the markdown of a change is handed to the callback of  *)
(* that task, also after the selection went from one task to another with  *)
(* the panel open.                                                         *)
(***************************************************************************)
NotesStoredOnOrigin ==
  [][Delivered => \A d \in inFlight : target(d).id = d.origin]_vars
(***************************************************************************)
(* C26.  Reset is the only operation that leaves ALL_DONE: the first       *)
(* ACTIVE state after an ALL_DONE state holds the seed tree.               *)
(***************************************************************************)
ActiveAfterAllDoneIsSeed ==
  [][(allDone /\ ~allDone') => items' = initialItems]_vars
\* with the effect run for the current tree, the overlay is on only in allDone
OverlayOnlyInAllDone == (EffectsFlushed /\ celebrating) => allDone

(***************************************************************************)
(* C27.  In every state in which the celebration effect has run for the    *)
(* current tree, celebrating = true implies allDone = true; and the effect *)
(* run for leaving ALL_DONE sets celebrating to false and re-arms the      *)
(* trigger in one step.                                                    *)
(***************************************************************************)
CelebratingOnlyWhenAllDone ==
  [][/\ OverlayOnlyInAllDone
     /\ OverlayOnlyInAllDone'
     /\ (effectDep /\ ~effectDep') => (~celebrating' /\ ~wasAllDoneRef')]_vars

\* the list was reset during the celebration and the effect has run for it
OverlayClearedOnLeaving ==
  /\ nresets = 1
  /\ ~allDone
  /\ EffectsFlushed
  /\ ~celebrating
  /\ ~wasAllDoneRef
  /\ timers = {}
\* the input texts that are empty or white space only
BlankTexts == {"", " "}

\* no node of the tree has an empty text
TextsNonEmpty(list) ==
  \A k \in 1..Len(AllNodes(list)) : AllNodes(list)[k].text # ""

(***************************************************************************)
(* C28.  Add-task with an input that is empty or only white space leaves   *)
(* the tree and the input as they are; with any other input it appends one *)
(* node at the end of the root list (the trimmed text, done = false, no    *)
(* children, expanded = true), keeps every existing node, clears the input *)
(* and leaves the widget ACTIVE.  The root list grows in no other way, and *)
(* no node of a reachable tree has an empty text.                          *)
(***************************************************************************)
AddTaskAppendsOne ==
  [][/\ AddTask =>
          IF newTaskText \in BlankTexts
            THEN items' = items /\ newTaskText' = newTaskText
            ELSE /\ Len(items') = Len(items) + 1
                 /\ newTaskText' = ""
     /\ Len(items') > Len(items) =>
          /\ newTaskText \notin BlankTexts
          /\ items' = Append(items, items'[Len(items')])
          /\ items'[Len(items')].text \in {"a", "b"}
          /\ items'[Len(items')].text = trim(newTaskText)
          /\ ~items'[Len(items')].done
          /\ items'[Len(items')].children = <<>>
          /\ items'[Len(items')].expanded = Some(TRUE)
          /\ ~allDone'
     /\ TextsNonEmpty(items) /\ TextsNonEmpty(items')]_vars

\* " b " was typed and added: the new task reads "b" and the input is empty
TrimmedTaskAdded ==
  /\ Len(items) = 7
  /\ items[7].text = "b"
  /\ newTaskText = ""
=============================================================================
